---- MODULE Spec2Model ----
(***************************************************************************)
(* A model of sftp-cli's Dynamic Sequence (src/src/sftp_list.c) and of its *)
(* path layer (src/src/sftp_path.c): the path-string functions, the local  *)
(* path materializer path_mkdir_parents and the remote directory reader    *)
(* path_read_remote_dir.                                                   *)
(*                                                                         *)
(* A C string is a sequence of one-character strings; its length is what   *)
(* strlen reports.  NULL is the null pointer, FAULT the abnormal end of    *)
(* the process (a NULL or wild dereference).                               *)
(***************************************************************************)
EXTENDS Integers, Sequences, FiniteSets, TLC

VARIABLES
    \* --- Dynamic Sequence (ListT) -------------------------------------
    self,        \* the ListT: [list, length, allocated]
    lastOp,      \* the operation that produced the current state
    before,      \* the ListT as it was when the last operation started
    nPush,       \* pushes performed so far
    nPop,        \* pops performed so far
    \* --- path-string functions ----------------------------------------
    pOp,         \* the function applied ("idle" before the call)
    pArgs,       \* its arguments: a sequence of C strings
    pRes,        \* its result
    slack,       \* bytes lying behind a calloc'ed block, as a read finds them
    \* --- path_mkdir_parents -------------------------------------------
    mPath,       \* path_str
    fsys,        \* the local filesystem: the set of existing directories
    mpc,         \* position in path_mkdir_parents
    mi,          \* the loop index i
    path_buf,    \* the prefix being processed
    mret,        \* the value returned (0, 1) or NONE
    sysLog,      \* the stat and mkdir calls issued, in order, with results
    callNo,      \* 1 for the first call, 2 for the immediately following one
    foreign,     \* directories created by other processes so far
    faithful,    \* every element read so far held the component pushed there
    \* --- path_read_remote_dir ------------------------------------------
    dpath,       \* path
    stream,      \* the records readdir has yet to produce
    served,      \* the records readdir has produced
    rpc,         \* position in path_read_remote_dir
    content,     \* path_content_list (a ListT of FileSystemT)
    rret,        \* what the function returned
    calls,       \* the calls made on the SFTP session, in order
    report       \* the errors reported through DBG_ERR

listVars == <<self, lastOp, before, nPush, nPop>>
pathVars == <<pOp, pArgs, pRes>>
mkVars   == <<mPath, fsys, mpc, mi, path_buf, mret, sysLog, callNo, foreign, faithful>>
rdVars   == <<dpath, stream, served, rpc, content, rret, calls, report>>
vars     == <<listVars, pathVars, slack, mkVars, rdVars>>

\* Pointers and results are compared with C strings, so the special values
\* are sequences too, of one token that is no character.
NULL  == <<"NULL">>
FAULT == <<"SIGSEGV">>
NONE  == <<"none">>
IGNORED == "ignored"
PATH_CONTENT_LIST == <<"path_content_list">>
NUL   == "\\0"
PATH_SEPARATOR == "/"

\* ------------------------------------------------------------------ bounds
MaxReserve == 2      \* List_new is called with 0 .. MaxReserve
MaxPushes  == 6      \* pushes per run of the Dynamic Sequence
MaxLen     == 3      \* length of the generated path strings
MaxParts   == 2      \* parts of a generated path_join call
MaxStream  == 2      \* records of a readdir stream
MaxForeign == 1      \* directories other processes create during a run

Min(a, b) == IF a < b THEN a ELSE b

\* ================================================================ ListT

Elems == {"e1", "e2"}

\* List_new: the storage is fresh (no element is live), length 0.
List_new(length) == [list |-> <<>>, length |-> 0, allocated |-> length]

\* (new_size + (new_size >> 3) + 6) & ~(size_t)3
OverAllocBroken(new_size) == new_size + (new_size \div 8)
OverAlloc(new_size) ==
    LET n == new_size + (new_size \div 8) + 6
    IN  n - (n % 4)

\* List_re_alloc.  ok: whether realloc returns storage.  On failure the
\* NULL realloc returned has already been stored in self->list.
NeedsRealloc(l, new_size) == ~(l.allocated >= new_size)

List_re_alloc(l, new_size, ok) ==
    IF ~NeedsRealloc(l, new_size) THEN l
    ELSE IF ok THEN [l EXCEPT !.allocated = OverAlloc(new_size)]
    ELSE [l EXCEPT !.list = NULL]

\* List_push with storage present: self->list[self->length++] = attr.
\* The live part of the storage is kept as a sequence of self->length slots.
List_store(l, attr) ==
    [l EXCEPT !.list = SubSeq(l.list, 1, l.length) \o <<attr>>,
              !.length = l.length + 1]

List_is_empty(l) == l.length = 0

\* List_pop: NULL on an empty list, else self->list[--self->length].
List_pop_value(l) == IF List_is_empty(l) THEN NULL ELSE l.list[l.length]

List_pop_list(l) ==
    IF List_is_empty(l) THEN l
    ELSE [l EXCEPT !.list = SubSeq(l.list, 1, l.length - 1),
                   !.length = l.length - 1]

\* Values of the variables of the components a specification leaves alone.
IdleList ==
    /\ self = List_new(0) /\ lastOp = "idle" /\ before = List_new(0)
    /\ nPush = 0 /\ nPop = 0

IdlePath == pOp = "idle" /\ pArgs = <<>> /\ pRes = NONE

IdleMk ==
    /\ mPath = <<>> /\ fsys = {} /\ mpc = "idle" /\ mi = 0 /\ path_buf = NULL
    /\ mret = NONE /\ sysLog = <<>> /\ callNo = 0 /\ foreign = 0
    /\ faithful = TRUE

IdleRd ==
    /\ dpath = <<>> /\ stream = <<>> /\ served = <<>> /\ rpc = "idle"
    /\ content = List_new(0) /\ rret = NONE /\ calls = <<>> /\ report = <<>>

\* ------------------------------------------------- the Dynamic Sequence
\* The model follows a sequence until it loses its storage (list = NULL)
\* or the process ends ("push_fault").

InitList ==
    /\ \E reserve \in 0..MaxReserve :
          /\ self = List_new(reserve)
          /\ before = List_new(reserve)
    /\ lastOp = "new" /\ nPush = 0 /\ nPop = 0
    /\ IdlePath /\ slack = <<>> /\ IdleMk /\ IdleRd

\* List_push when List_re_alloc returns with storage (no realloc needed,
\* or realloc succeeded).
Push(attr) ==
    /\ self.list # NULL /\ lastOp # "push_fault"
    /\ nPush < MaxPushes
    /\ before' = self
    /\ self' = List_store(List_re_alloc(self, self.length + 1, TRUE), attr)
    /\ lastOp' = "push"
    /\ nPush' = nPush + 1
    /\ UNCHANGED <<nPop, pathVars, slack, mkVars, rdVars>>

\* List_push when realloc fails: List_re_alloc has stored NULL in
\* self->list and returned; List_push then writes through NULL[length].
\* That write is undefined: the process ends there, or it goes on with
\* length incremented.
PushReallocFails(attr) ==
    /\ self.list # NULL /\ lastOp # "push_fault"
    /\ nPush < MaxPushes
    /\ NeedsRealloc(self, self.length + 1)
    /\ before' = self
    /\ LET l == List_re_alloc(self, self.length + 1, FALSE)
       IN  \/ self' = l /\ lastOp' = "push_fault"
           \/ self' = [l EXCEPT !.length = l.length + 1] /\ lastOp' = "push_failed"
    /\ nPush' = nPush + 1
    /\ UNCHANGED <<nPop, pathVars, slack, mkVars, rdVars>>

Pop ==
    /\ self.list # NULL /\ lastOp # "push_fault"
    /\ nPop < MaxPushes
    /\ before' = self
    /\ self' = List_pop_list(self)
    /\ lastOp' = "pop"
    /\ nPop' = nPop + 1
    /\ UNCHANGED <<nPush, pathVars, slack, mkVars, rdVars>>

NextList ==
    \/ \E attr \in Elems : Push(attr)
    \/ \E attr \in Elems : PushReallocFails(attr)
    \/ Pop

SpecList == InitList /\ [][NextList]_vars

\* The largest multiple of 4 that is at most x (x & ~3).
ClearLowTwoBits(x) == CHOOSE m \in 0..x : m % 4 = 0 /\ m + 4 > x

\* C4: while every allocation has succeeded, 0 <= length <= allocated, the
\* capacity is never below what it was before the last operation, after N
\* pushes and no pop length = N and capacity >= N, and a push that found
\* length = capacity left capacity (n + n/8 + 6) & ~3 with n = length + 1.
C4_LengthWithinCapacity ==
    (self.list # NULL /\ lastOp \in {"new", "push", "pop"}) =>
        /\ 0 <= self.length /\ self.length <= self.allocated
        /\ Len(self.list) = self.length
        /\ self.allocated >= before.allocated
        /\ (nPop = 0 => self.length = nPush /\ self.allocated >= nPush)
        /\ (lastOp = "push" /\ before.length = before.allocated) =>
              LET n == before.length + 1
              IN  self.allocated = ClearLowTwoBits(n + (n \div 8) + 6)

\* A push that found the sequence full a second time, after pops.
C4_Witness ==
    /\ lastOp = "push" /\ before.length = before.allocated
    /\ before.allocated > 0 /\ nPop > 0 /\ nPush >= 5

\* C5: a push whose reallocation failed leaves items, length and capacity
\* as they were before the push.
C5_FailedPushLeavesSequenceUntouched ==
    lastOp \in {"push_failed", "push_fault"} => self = before

\* ================================================== path-string functions

Alphabet == {"/", ".", "a"}

\* The C strings of at most n characters over the alphabet.
StrUpTo(n) == UNION {[1..k -> Alphabet] : k \in 0..n}

\* What a read finds behind the bytes calloc was asked for: nothing (the
\* byte there is NUL) or one stray character.
SlackChoices == {<<>>} \cup {<<c>> : c \in {"a", "/"}}

\* path_str[i] (0-based); the byte at strlen is the terminator.
CharAt(path_str, i) == IF i < Len(path_str) THEN path_str[i + 1] ELSE NUL

\* path_str_slice.  The copy holds path_str[start .. stop-1] in a block of
\* stop - start bytes, and the terminator is written at offset stop - 1 of
\* the copy.  With start = 0 that overwrites the last character copied.
\* With start > 0 it lies start - 1 bytes behind the block: the string then
\* runs on through those bytes (slk) up to the first NUL.
path_str_slice(path_str, start, stop, slk) ==
    LET length == stop - start
    IN  IF length < 1 THEN NULL
        ELSE IF start = 0 THEN SubSeq(path_str, 1, stop - 1)
        ELSE SubSeq(path_str, start + 1, stop)
                 \o SubSeq(slk, 1, Min(start - 1, Len(slk)))

\* The loop of path_remove_prefix: the separators at cleaned[i ..], i < length.
RECURSIVE SlashPrefix(_, _, _)
SlashPrefix(cleaned, i, length) ==
    IF i < length /\ CharAt(cleaned, i) = PATH_SEPARATOR
    THEN 1 + SlashPrefix(cleaned, i + 1, length)
    ELSE 0

path_remove_prefix(path_str, slk) ==
    LET length == Len(path_str)
    IN  IF length < 2 THEN path_str
        ELSE
          LET dot     == path_str[1] = "." /\ path_str[2] = PATH_SEPARATOR
              cleaned == IF dot THEN path_str_slice(path_str, 2, length, slk)
                         ELSE path_str
              len2    == IF dot THEN length - 2 ELSE length
              is_root_dir == IF dot THEN 0 ELSE 1
              num_slash_prefix ==
                  IF cleaned = NULL THEN 0 ELSE SlashPrefix(cleaned, 0, len2)
          IN  IF num_slash_prefix > 0
              THEN path_str_slice(cleaned, num_slash_prefix - is_root_dir, len2, slk)
              ELSE cleaned

\* The loop of path_remove_suffix: i starts at length - 1 and is
\* incremented, so it ends at the terminator at the latest.
RECURSIVE SlashSuffix(_, _)
SlashSuffix(cleaned, i) ==
    IF i > -1 /\ CharAt(cleaned, i) = PATH_SEPARATOR
    THEN 1 + SlashSuffix(cleaned, i + 1)
    ELSE 0

path_remove_suffix(path_str) ==
    LET length == Len(path_str)
    IN  IF length < 2 THEN path_str
        ELSE LET num_slash_suffix == SlashSuffix(path_str, length - 1)
             IN  IF num_slash_suffix > 0
                 THEN path_str_slice(path_str, 0, length - num_slash_suffix + 1, <<>>)
                 ELSE path_str

\* BUF_SIZE_FS_PATH bounds the loop of path_join; the strings modelled here
\* stay far below it.
BUF_SIZE_FS_PATH == 4096

\* path_join, from part i (1-based) on, with path_buf built so far.
\* strlen(NULL), for a part path_remove_prefix reduced to NULL, ends the
\* process.
RECURSIVE JoinFrom(_, _, _, _)
JoinFrom(parts, i, buf, slk) ==
    IF ~(i <= Len(parts) /\ Len(buf) < BUF_SIZE_FS_PATH) THEN buf
    ELSE LET stripped == path_remove_prefix(parts[i], slk)
         IN  IF stripped = NULL THEN FAULT
             ELSE LET fs_name == path_remove_suffix(stripped)
                      sep == IF i < Len(parts) THEN <<PATH_SEPARATOR>> ELSE <<>>
                  IN  JoinFrom(parts, i + 1, buf \o fs_name \o sep, slk)

path_join(parts, slk) == JoinFrom(parts, 1, <<>>, slk)

\* path_split: the contents path_buf has at each List_push, in order.
RECURSIVE SplitFrom(_, _, _, _)
SplitFrom(path_str, i, buf, pushed) ==
    IF i >= Len(path_str) THEN Append(pushed, buf)
    ELSE IF path_str[i + 1] # PATH_SEPARATOR
         THEN SplitFrom(path_str, i + 1, Append(buf, path_str[i + 1]), pushed)
         ELSE SplitFrom(path_str, i + 1, <<>>, Append(pushed, buf))

Pushed(path_str) == SplitFrom(path_str, 0, <<>>, <<>>)

\* path_split calls List_push(path_list, path_buf, path_buf_len + 1).
\* List_push (sftp_list.c) takes the list and a pointer and stores the
\* pointer: every element of the list path_split returns is path_buf
\* itself, which path_split clears after each push and frees at the end.
\* What a read through such an element finds: the bytes path_buf held when
\* it was freed (the last component), or what the allocator put there.
FreedReads(path_str) ==
    {Pushed(path_str)[Len(Pushed(path_str))], <<>>, <<"?">>}

\* The ListT path_split returns: List_new(0, ...) and one List_push per
\* component, each element shown as a read through it finds it.
RECURSIVE PushAll(_, _, _)
PushAll(l, k, found) ==
    IF k = 0 THEN l
    ELSE PushAll(List_store(List_re_alloc(l, l.length + 1, TRUE), found),
                 k - 1, found)

path_split(path_str, found) ==
    PushAll(List_new(0), Len(Pushed(path_str)), found)

\* ----------------------------------------- calls of the path functions

Example_Join1 == << <<".", "/", "a", "/", "/">>, <<"/", "b", "/">>, <<"c">> >>
Example_Join2 == << <<"/", "r", "o", "o", "t", "/">>, <<"s", "u", "b", "/">>,
                    <<"/", "l", "e", "a", "f">> >>
Example_Split == <<"/", "a", "/", "/", "b", "/", "c", "/">>
Example_Suffix == <<"t", "h", "i", "s", "/", "/", "/", "/">>

PathInputs ==
    UNION {[1..k -> StrUpTo(MaxLen)] : k \in 1..MaxParts}
        \cup {Example_Join1, Example_Join2, <<Example_Split>>, <<Example_Suffix>>}

InitPath ==
    /\ pArgs \in PathInputs
    /\ slack \in SlackChoices
    /\ pOp = "idle" /\ pRes = NONE
    /\ IdleList /\ IdleMk /\ IdleRd

CallJoin ==
    /\ pOp = "idle"
    /\ pOp' = "path_join"
    /\ pRes' = path_join(pArgs, slack)
    /\ UNCHANGED <<pArgs, slack, listVars, mkVars, rdVars>>

\* path_split, and what its caller finds in the list returned.
CallSplit ==
    /\ pOp = "idle" /\ Len(pArgs) = 1
    /\ pOp' = "path_split"
    /\ \E found \in FreedReads(pArgs[1]) : pRes' = path_split(pArgs[1], found)
    /\ UNCHANGED <<pArgs, slack, listVars, mkVars, rdVars>>

CallRemoveSuffix ==
    /\ pOp = "idle" /\ Len(pArgs) = 1
    /\ pOp' = "path_remove_suffix"
    /\ pRes' = path_remove_suffix(pArgs[1])
    /\ UNCHANGED <<pArgs, slack, listVars, mkVars, rdVars>>

\* path_remove_suffix applied to its own result.
CallRemoveSuffixAgain ==
    /\ pOp = "path_remove_suffix"
    /\ pOp' = "path_remove_suffix twice"
    /\ pRes' = path_remove_suffix(pRes)
    /\ UNCHANGED <<pArgs, slack, listVars, mkVars, rdVars>>

NextPath == CallJoin \/ CallSplit \/ CallRemoveSuffix \/ CallRemoveSuffixAgain

SpecPath == InitPath /\ [][NextPath]_vars

\* --- what the claims say of these functions

IsAbsolute(s) == Len(s) > 0 /\ s[1] = PATH_SEPARATOR

\* s without its first k characters.
Drop(s, k) == SubSeq(s, k + 1, Len(s))

RECURSIVE DropLeadingSlashes(_)
DropLeadingSlashes(s) ==
    IF IsAbsolute(s) THEN DropLeadingSlashes(Drop(s, 1)) ELSE s

RECURSIVE DropTrailingSlashes(_)
DropTrailingSlashes(s) ==
    IF Len(s) > 0 /\ s[Len(s)] = PATH_SEPARATOR
    THEN DropTrailingSlashes(SubSeq(s, 1, Len(s) - 1))
    ELSE s

StripTrailingClaimed(s) ==
    IF s = <<PATH_SEPARATOR>> THEN s ELSE DropTrailingSlashes(s)

DropDotSlash(s) ==
    IF Len(s) >= 2 /\ s[1] = "." /\ s[2] = PATH_SEPARATOR THEN Drop(s, 2) ELSE s

\* The components of s: the non-empty runs between separators.
RECURSIVE Components(_, _, _)
Components(s, cur, acc) ==
    IF s = <<>> THEN (IF cur = <<>> THEN acc ELSE Append(acc, cur))
    ELSE IF s[1] = PATH_SEPARATOR
         THEN Components(Drop(s, 1), <<>>, IF cur = <<>> THEN acc ELSE Append(acc, cur))
         ELSE Components(Drop(s, 1), Append(cur, s[1]), acc)

SplitClaimed(s) ==
    (IF IsAbsolute(s) THEN << <<>> >> ELSE <<>>) \o Components(s, <<>>, <<>>)

\* A part that names something: it has a character that is neither a
\* separator nor a dot.
HasName(p) == \E k \in 1..Len(p) : p[k] \notin {PATH_SEPARATOR, "."}

RECURSIVE JoinClaimedFrom(_, _)
JoinClaimedFrom(parts, i) ==
    IF i > Len(parts) THEN <<>>
    ELSE <<PATH_SEPARATOR>>
            \o DropTrailingSlashes(DropLeadingSlashes(DropDotSlash(parts[i])))
            \o JoinClaimedFrom(parts, i + 1)

JoinClaimed(parts) ==
    LET first == DropDotSlash(parts[1])
        head  == IF IsAbsolute(first)
                 THEN <<PATH_SEPARATOR>> \o DropLeadingSlashes(first)
                 ELSE first
    IN  DropTrailingSlashes(head) \o JoinClaimedFrom(parts, 2)

\* C8: path_split returns the non-empty components of s, in order,
\* preceded by one empty element iff s is absolute, and the elements read
\* after it returns hold those components.
C8_SplitReturnsComponents ==
    pOp = "path_split" =>
        /\ pRes.length = Len(SplitClaimed(pArgs[1]))
        /\ SubSeq(pRes.list, 1, pRes.length) = SplitClaimed(pArgs[1])

\* C9: path_join of parts that name something is the parts joined by
\* exactly one separator, leading "./" and separator runs and trailing
\* separators dropped, absolute iff the first part is.
C9_JoinUsesOneSeparator ==
    (pOp = "path_join" /\ \A k \in 1..Len(pArgs) : HasName(pArgs[k])) =>
        pRes = JoinClaimed(pArgs)

\* C10: path_remove_suffix drops the whole run of trailing separators
\* ("/" itself excepted), and applying it again changes nothing.
C10_StripTrailingIdempotent ==
    /\ pOp = "path_remove_suffix" => pRes = StripTrailingClaimed(pArgs[1])
    /\ pOp = "path_remove_suffix twice" => pRes = path_remove_suffix(pArgs[1])

\* ==================================================== path_mkdir_parents

\* The directory a path string names: whether it starts at the root, and
\* its components ("." and empty components name nothing).
Resolve(p) ==
    LET cs == Components(p, <<>>, <<>>)
    IN  [abs |-> IsAbsolute(p),
         comps |-> SelectSeq(cs, LAMBDA c : c # <<".">>)]

ParentOf(d) == [d EXCEPT !.comps = SubSeq(d.comps, 1, Len(d.comps) - 1)]

\* The root and the working directory always exist.
DirExists(fs, d) == d.comps = <<>> \/ d \in fs

\* stat(path_buf, ...): 0, or -1 when nothing is there.
stat(fs, p) == IF p # <<>> /\ DirExists(fs, Resolve(p)) THEN 0 ELSE -1

\* mkdir(path_buf, FS_CREATE_PERM): "OK" or the errno.
mkdir(fs, p) ==
    IF p = <<>> THEN "ENOENT"
    ELSE IF DirExists(fs, Resolve(p)) THEN "EEXIST"
    ELSE IF ~DirExists(fs, ParentOf(Resolve(p))) THEN "ENOENT"
    ELSE "OK"

\* if ((result = mkdir(...))) return 0: which results end the call.
MkdirEndsCall(err) == err # "OK"

MkInputs ==
    { <<"a">>, <<"a", "/", "a">>, <<"a", "/", "b">>,
      <<"a", "/", "b", "/", "c">>, <<"/", "a">> }

InitMk ==
    /\ mPath \in MkInputs
    /\ slack \in SlackChoices
    /\ fsys = {} /\ mpc = "stat" /\ mi = 0 /\ path_buf = NULL
    /\ mret = NONE /\ sysLog = <<>> /\ callNo = 1 /\ foreign = 0
    /\ faithful = TRUE
    /\ IdleList /\ IdlePath /\ IdleRd

\* After iteration i: the next iteration, or List_free and return 1.
MkAdvance ==
    /\ mi' = mi + 1
    /\ IF mi + 1 < Len(Pushed(mPath))
       THEN mpc' = "stat" /\ mret' = mret
       ELSE mpc' = "done" /\ mret' = 1

\* The head of one iteration: path_buf is the element 0 (i = 0) or
\* FS_JOIN_PATH(path_buf, element i), then stat(path_buf).  At i = 1
\* path_buf is still the pointer to element 0, read again by the join.
MkStat ==
    /\ mpc = "stat"
    /\ \E found0 \in FreedReads(mPath), found \in FreedReads(mPath) :
          LET first  == IF mi = 1 THEN found0 ELSE path_buf
              joined == IF mi = 0 THEN found
                        ELSE path_join(<<first, found>>, slack)
          IN  /\ (mi # 1 => found0 = found)
              /\ faithful' = (/\ faithful
                              /\ found = Pushed(mPath)[mi + 1]
                              /\ (mi = 1 => found0 = Pushed(mPath)[1]))
              /\ path_buf' = joined
              /\ IF joined = FAULT
                 THEN /\ mpc' = "fault"
                      /\ UNCHANGED <<mi, mret, sysLog>>
                 ELSE /\ sysLog' = Append(sysLog, <<"stat", joined, stat(fsys, joined)>>)
                      /\ IF stat(fsys, joined) = -1
                         THEN mpc' = "mkdir" /\ UNCHANGED <<mi, mret>>
                         ELSE MkAdvance
    /\ UNCHANGED <<mPath, fsys, callNo, foreign, slack, listVars, pathVars, rdVars>>

\* stat returned -1: mkdir(path_buf, FS_CREATE_PERM).
MkMkdir ==
    /\ mpc = "mkdir"
    /\ LET err == mkdir(fsys, path_buf)
       IN  /\ sysLog' = Append(sysLog, <<"mkdir", path_buf, err>>)
           /\ IF MkdirEndsCall(err)
              THEN mpc' = "done" /\ mret' = 0 /\ UNCHANGED <<mi, fsys>>
              ELSE fsys' = fsys \cup {Resolve(path_buf)} /\ MkAdvance
    /\ UNCHANGED <<mPath, path_buf, callNo, foreign, faithful, slack,
                   listVars, pathVars, rdVars>>

\* The prefixes of the path, shortest first, as path strings.
RECURSIVE PrefixStrings(_, _, _)
PrefixStrings(cs, k, acc) ==
    IF k > Len(cs) THEN acc
    ELSE PrefixStrings(cs, k + 1,
            Append(acc, IF k = 1 THEN cs[1]
                        ELSE acc[k - 1] \o <<PATH_SEPARATOR>> \o cs[k]))

ClaimedPrefixes(p) ==
    LET ps == PrefixStrings(Components(p, <<>>, <<>>), 1, <<>>)
    IN  IF IsAbsolute(p)
        THEN [k \in 1..Len(ps) |-> <<PATH_SEPARATOR>> \o ps[k]]
        ELSE ps

\* Another process creates one of the path's prefix directories while the
\* call runs.
OtherProcessMkdir ==
    /\ mpc \in {"stat", "mkdir"}
    /\ foreign < MaxForeign
    /\ \E k \in 1..Len(ClaimedPrefixes(mPath)) :
          /\ mkdir(fsys, ClaimedPrefixes(mPath)[k]) = "OK"
          /\ fsys' = fsys \cup {Resolve(ClaimedPrefixes(mPath)[k])}
    /\ foreign' = foreign + 1
    /\ UNCHANGED <<mPath, mpc, mi, path_buf, mret, sysLog, callNo, faithful,
                   slack, listVars, pathVars, rdVars>>

\* The caller calls path_mkdir_parents again with the same path.
SecondCall ==
    /\ mpc = "done" /\ callNo = 1
    /\ callNo' = 2
    /\ mpc' = "stat" /\ mi' = 0 /\ path_buf' = NULL /\ mret' = NONE
    /\ sysLog' = <<>>
    /\ UNCHANGED <<mPath, fsys, foreign, faithful, slack, listVars, pathVars, rdVars>>

NextMk == MkStat \/ MkMkdir \/ OtherProcessMkdir \/ SecondCall

SpecMk == InitMk /\ [][NextMk]_vars

LogOf(kind) == SelectSeq(sysLog, LAMBDA e : e[1] = kind)
PathsOf(log) == [k \in 1..Len(log) |-> log[k][2]]

\* C6: a call in which mkdir failed only with "already exists" (another
\* process created the prefix first) does not fail: it returns OK with
\* every prefix existing.
C6_ConcurrentCreatorTolerated ==
    (/\ mpc = "done" /\ faithful
     /\ \A k \in 1..Len(sysLog) :
           sysLog[k][1] = "mkdir" => sysLog[k][3] \in {"OK", "EEXIST"}) =>
        /\ mret = 1
        /\ \A k \in 1..Len(ClaimedPrefixes(mPath)) :
              stat(fsys, ClaimedPrefixes(mPath)[k]) = 0

\* C7: with no other process at work, the first call on a relative path
\* stats and creates its prefixes shortest first and returns OK with all
\* of them existing; the second call returns OK and issues no mkdir.
C7_CreatesPrefixesInOrder ==
    (mpc = "done" /\ foreign = 0 /\ ~IsAbsolute(mPath)) =>
        /\ mret = 1
        /\ \A k \in 1..Len(ClaimedPrefixes(mPath)) :
              stat(fsys, ClaimedPrefixes(mPath)[k]) = 0
        /\ callNo = 1 =>
              /\ PathsOf(LogOf("stat")) = ClaimedPrefixes(mPath)
              /\ PathsOf(LogOf("mkdir")) = ClaimedPrefixes(mPath)
        /\ callNo = 2 => LogOf("mkdir") = <<>>

\* ================================================== path_read_remote_dir

\* attr->type, and FileTypesT.
TypeCodes == {"SSH_FILEXFER_TYPE_REGULAR", "SSH_FILEXFER_TYPE_DIRECTORY",
              "SSH_FILEXFER_TYPE_SYMLINK"}

\* The switch on attr->type: the FileTypesT, or IGNORED for the default
\* case.
FileTypeOf(code) ==
    CASE code = "SSH_FILEXFER_TYPE_REGULAR"   -> "FS_REG_FILE"
      [] code = "SSH_FILEXFER_TYPE_DIRECTORY" -> "FS_DIRECTORY"
      [] OTHER -> IGNORED

Names == { <<"f">>, <<".", "g">> }
Records == [name : Names, type : TypeCodes]
Streams == UNION {[1..k -> Records] : k \in 0..MaxStream}
DirPaths == { <<"/", "s">>, <<"s">> }

\* What a read of malloc'ed bytes nothing was written to may find.
Uninitialised == { <<>>, <<"?">> }

\* FileSystem_from_path(path, type): the name is read through the element
\* List_pop returns (found); the path goes to absolute_path or to
\* relative_path, and the other buffer stays as malloc left it (other).
FileSystem_from_path(path, type, found, other) ==
    [name |-> List_pop_value(path_split(path, found)),
     type |-> type,
     relative_path |-> IF IsAbsolute(path) THEN other ELSE path,
     absolute_path |-> IF IsAbsolute(path) THEN path ELSE other]

\* FileSystem_copy(self, dest): name and relative_path.
FileSystem_copy(src, dest) ==
    [dest EXCEPT !.name = src.name, !.relative_path = src.relative_path]

\* FileSystem_list_push: the element is a new FileSystemT made from
\* fs->relative_path, with fs copied over it.
FileSystem_list_push(l, fs, found, other) ==
    List_store(List_re_alloc(l, l.length + 1, TRUE),
               FileSystem_copy(fs, FileSystem_from_path(fs.relative_path, fs.type,
                                                        found, other)))

\* Where the function goes when sftp_opendir returned NULL, and what it
\* returns when sftp_closedir failed.
PcAfterOpenFailureFallsThrough == "read"
PcAfterOpenFailure == "done"

ReturnOnCloseFailureKeepsList == PATH_CONTENT_LIST
ReturnOnCloseFailure == NULL

\* No part joined here starts with "./" or "//": path_join reads no slack.
InitRd ==
    /\ dpath \in DirPaths
    /\ stream \in Streams
    /\ slack = <<>>
    /\ served = <<>> /\ rpc = "open" /\ content = List_new(1)
    /\ rret = NONE /\ calls = <<>> /\ report = <<>>
    /\ IdleList /\ IdlePath /\ IdleMk

OpendirFails ==
    /\ rpc = "open"
    /\ calls' = Append(calls, <<"opendir", "fail">>)
    /\ report' = Append(report, "OPEN_FAILED")
    /\ rpc' = PcAfterOpenFailure
    /\ rret' = NULL
    /\ UNCHANGED <<dpath, stream, served, content, slack, listVars, pathVars, mkVars>>

OpendirOk ==
    /\ rpc = "open"
    /\ calls' = Append(calls, <<"opendir", "ok">>)
    /\ rpc' = "read"
    /\ UNCHANGED <<dpath, stream, served, content, rret, report, slack,
                   listVars, pathVars, mkVars>>

\* sftp_readdir returns a record: one pass through the loop body.  For an
\* absolute path FileSystem_list_push reads fs->relative_path, which
\* nothing was written to: it finds some bytes, or the process ends.
ReaddirEntry ==
    /\ rpc = "read" /\ stream # <<>>
    /\ calls' = Append(calls, <<"readdir", "attr">>)
    /\ served' = Append(served, Head(stream))
    /\ stream' = Tail(stream)
    /\ LET attr == Head(stream)
           attr_relative_path == path_join(<<dpath, attr.name>>, slack)
           file_system_type == FileTypeOf(attr.type)
       IN  IF file_system_type = IGNORED
           THEN UNCHANGED <<rpc, content>>
           ELSE \E found \in FreedReads(attr_relative_path), other \in Uninitialised :
                  LET file_system == FileSystem_from_path(attr_relative_path,
                                         file_system_type, found, other)
                  IN  \/ /\ content' = FileSystem_list_push(content, file_system,
                                                            found, other)
                         /\ rpc' = rpc
                      \/ /\ IsAbsolute(attr_relative_path)
                         /\ rpc' = "fault"
                         /\ content' = content
    /\ UNCHANGED <<dpath, rret, report, slack, listVars, pathVars, mkVars>>

\* sftp_readdir returns NULL: the loop ends.
ReaddirEnd ==
    /\ rpc = "read" /\ stream = <<>>
    /\ calls' = Append(calls, <<"readdir", "NULL">>)
    /\ rpc' = "close"
    /\ UNCHANGED <<dpath, stream, served, content, rret, report, slack,
                   listVars, pathVars, mkVars>>

ClosedirOk ==
    /\ rpc = "close"
    /\ calls' = Append(calls, <<"closedir", "ok">>)
    /\ rpc' = "done"
    /\ rret' = PATH_CONTENT_LIST
    /\ UNCHANGED <<dpath, stream, served, content, report, slack,
                   listVars, pathVars, mkVars>>

\* sftp_closedir fails.  The report reads dir->name after the close
\* released dir: it prints what it finds there, or the process ends.
ClosedirFails ==
    /\ rpc = "close"
    /\ calls' = Append(calls, <<"closedir", "fail">>)
    /\ \/ /\ report' = Append(report, "CLOSE_FAILED")
          /\ rpc' = "done"
          /\ rret' = ReturnOnCloseFailure
       \/ /\ rpc' = "fault"
          /\ UNCHANGED <<report, rret>>
    /\ UNCHANGED <<dpath, stream, served, content, slack, listVars, pathVars, mkVars>>

NextRd ==
    \/ OpendirFails \/ OpendirOk
    \/ ReaddirEntry \/ ReaddirEnd
    \/ ClosedirOk \/ ClosedirFails

SpecRd == InitRd /\ [][NextRd]_vars

CallsOf(kind) == SelectSeq(calls, LAMBDA c : c[1] = kind)

\* C1: after a failed opendir nothing else is called on the session and
\* NULL is returned; after a successful one closedir is called exactly
\* once before the function returns, and no readdir follows a closedir.
C1_HandleClosedExactlyOnce ==
    /\ Len(CallsOf("closedir")) <= 1
    /\ \A k \in 1..Len(calls) :
          /\ (calls[k][1] = "closedir" => k = Len(calls))
          /\ (calls[k] = <<"opendir", "fail">> => Len(calls) = 1)
    /\ rpc = "done" =>
          /\ calls # <<>>
          /\ calls[1] = <<"opendir", "fail">> => rret = NULL
          /\ calls[1] = <<"opendir", "ok">> => Len(CallsOf("closedir")) = 1

\* A return after a successful open, two records read, one of them ignored.
C1_Witness ==
    /\ rpc = "done" /\ calls[1] = <<"opendir", "ok">>
    /\ Len(served) >= 2 /\ content.length < Len(served)

\* The records of the stream that are regular files or directories.
Kept(recs) == SelectSeq(recs, LAMBDA r : FileTypeOf(r.type) # IGNORED)

\* C2: the sequence returned holds one entry per REGULAR or DIRECTORY
\* record, in readdir order, with the record's name and the matching type.
C2_ReturnsKeptRecordsInOrder ==
    (rpc = "done" /\ rret = PATH_CONTENT_LIST) =>
        /\ content.length = Len(Kept(served))
        /\ \A k \in 1..content.length :
              /\ content.list[k].name = Kept(served)[k].name
              /\ content.list[k].type = FileTypeOf(Kept(served)[k].type)

CloseFailed == calls # <<>> /\ calls[Len(calls)] = <<"closedir", "fail">>

====
